---- MODULE Spec2Model ----
(***************************************************************************)
(* Model of the cron / fcron monitors (src/cron_checker.py and             *)
(* src/fcron_checker.py).  One run of either script is a sequential        *)
(* program: fetch the schedule, fetch the logs, filter them into events,   *)
(* build the result entries, send one report.                              *)
(*                                                                         *)
(* A text is a sequence of one-character strings, so that substring tests, *)
(* whitespace splitting and the regular expressions of the source are      *)
(* computed character by character.  Literal texts of the source that are  *)
(* only ever copied (fixed labels and messages) are kept as a sequence of  *)
(* one or more multi-character pieces.                                     *)
(***************************************************************************)
EXTENDS Integers, Sequences, FiniteSets, TLC

(* ------------------------------ bounds -------------------------------- *)
\* longest output of `crontab -l`, in lines
MaxJobs == 2
\* most log lines one run reads, over all its log sources
MaxLogs == 2
\* longest entry list handed directly to send_discord_report (SpecReport)
MaxEntries == 3

(* ------------------------- program constants -------------------------- *)
CHECK_MINUTES == 10
TAIL_LINES == 500
RED == 15158332
ORANGE == 15105570
GREEN == 3066993

SeqsUpTo(S, n) == UNION {[1..k -> S] : k \in 0..n}

(* --------------------------- text primitives -------------------------- *)
\* Python `pat in s` on strings
Contains(pat, s) ==
    \E i \in 0..(Len(s) - Len(pat)) : SubSeq(s, i + 1, i + Len(pat)) = pat

\* the characters str.split() / str.strip() treat as whitespace
IsSpace(c) == c \in {" ", "\t", "\n"}

IsDigit(c) == c \in {"0", "1", "2", "3", "4", "5", "6", "7", "8", "9"}

UpperLetters ==
    <<"A", "B", "C", "D", "E", "F", "G", "H", "I", "J", "K", "L", "M",
      "N", "O", "P", "Q", "R", "S", "T", "U", "V", "W", "X", "Y", "Z">>

LowerLetters ==
    <<"a", "b", "c", "d", "e", "f", "g", "h", "i", "j", "k", "l", "m",
      "n", "o", "p", "q", "r", "s", "t", "u", "v", "w", "x", "y", "z">>

\* case folding used by re.IGNORECASE
LowerChar(c) ==
    IF \E i \in 1..26 : UpperLetters[i] = c
    THEN LowerLetters[CHOOSE i \in 1..26 : UpperLetters[i] = c]
    ELSE c

Lower(s) == [i \in 1..Len(s) |-> LowerChar(s[i])]

\* str.strip()
Strip(s) ==
    LET keep == {i \in 1..Len(s) : ~IsSpace(s[i])}
    IN  IF keep = {} THEN <<>>
        ELSE LET lo == CHOOSE i \in keep : \A j \in keep : i <= j
                 hi == CHOOSE i \in keep : \A j \in keep : j <= i
             IN  SubSeq(s, lo, hi)

\* str.startswith(p)
StartsWith(s, p) == Len(s) >= Len(p) /\ SubSeq(s, 1, Len(p)) = p

RECURSIVE SplitFrom(_, _, _, _)
SplitFrom(s, i, cur, acc) ==
    IF i > Len(s)
    THEN IF cur = <<>> THEN acc ELSE Append(acc, cur)
    ELSE IF IsSpace(s[i])
         THEN SplitFrom(s, i + 1, <<>>, IF cur = <<>> THEN acc ELSE Append(acc, cur))
         ELSE SplitFrom(s, i + 1, Append(cur, s[i]), acc)

\* str.split() without arguments: the maximal runs of non-whitespace
Split(s) == SplitFrom(s, 1, <<>>, <<>>)

RECURSIVE Join(_, _)
\* sep.join(parts)
Join(parts, sep) ==
    IF parts = <<>> THEN <<>>
    ELSE IF Len(parts) = 1 THEN parts[1]
    ELSE parts[1] \o sep \o Join(Tail(parts), sep)

\* s[n:]
DropFirst(s, n) == IF Len(s) <= n THEN <<>> ELSE SubSeq(s, n + 1, Len(s))

\* s[-n:]
LastN(s, n) == IF Len(s) <= n THEN s ELSE SubSeq(s, Len(s) - n + 1, Len(s))

(* ------------------------------ literals ------------------------------ *)
tCRON == <<"C", "R", "O", "N">>
tcron == <<"c", "r", "o", "n">>
tfcron == <<"f", "c", "r", "o", "n">>
tEXIT == <<"E", "X", "I", "T", " ", "S", "T", "A", "T", "U", "S">>
tEXIT0 == tEXIT \o <<" ", "(", "0", ")">>
tEXITOPEN == tEXIT \o <<" ", "(">>
tCMDOPEN == <<"C", "M", "D", " ", "(">>

(* --------------------- regular expressions of the source --------------- *)
\* re.search(r"(CRON|cron|fcron)", line)
CronRelevant(line) ==
    Contains(tCRON, line) \/ Contains(tcron, line) \/ Contains(tfcron, line)

\* re.search(r"fcron", line, re.IGNORECASE)
FcronRelevant(line) == Contains(tfcron, Lower(line))

RECURSIVE DigitsEnd(_, _)
\* the first index at or after k that holds no digit (Len(e) + 1 if none)
DigitsEnd(e, k) ==
    IF k <= Len(e) /\ IsDigit(e[k]) THEN DigitsEnd(e, k + 1) ELSE k

\* r'EXIT STATUS \((\d+)\)' matches at index i
ExitMatchAt(e, i) ==
    /\ i + Len(tEXITOPEN) - 1 <= Len(e)
    /\ SubSeq(e, i, i + Len(tEXITOPEN) - 1) = tEXITOPEN
    /\ LET d == i + Len(tEXITOPEN)
           j == DigitsEnd(e, d)
       IN  j > d /\ j <= Len(e) /\ e[j] = ")"

\* mutant of ExitMatch: the rightmost match instead of the leftmost
ExitMatchLast(e) ==
    LET at == {i \in 1..Len(e) : ExitMatchAt(e, i)}
    IN  IF at = {} THEN [matched |-> FALSE, group |-> <<>>]
        ELSE LET i == CHOOSE k \in at : \A m \in at : m <= k
                 d == i + Len(tEXITOPEN)
             IN  [matched |-> TRUE, group |-> SubSeq(e, d, DigitsEnd(e, d) - 1)]

\* re.search(r'EXIT STATUS \((\d+)\)', e): the leftmost match and its group 1
ExitMatch(e) ==
    LET at == {i \in 1..Len(e) : ExitMatchAt(e, i)}
    IN  IF at = {} THEN [matched |-> FALSE, group |-> <<>>]
        ELSE LET i == CHOOSE k \in at : \A m \in at : k <= m
                 d == i + Len(tEXITOPEN)
             IN  [matched |-> TRUE, group |-> SubSeq(e, d, DigitsEnd(e, d) - 1)]

\* re.search(r'CMD \((.*?)\)', e): the leftmost "CMD (" that some ")" follows
\* on the same line, and the shortest text up to a ")"
JobMatch(e) ==
    LET closes(i) == {j \in (i + Len(tCMDOPEN))..Len(e) :
                         /\ e[j] = ")"
                         /\ \A k \in (i + Len(tCMDOPEN))..(j - 1) : e[k] # "\n"}
        at == {i \in 1..Len(e) :
                  /\ i + Len(tCMDOPEN) - 1 <= Len(e)
                  /\ SubSeq(e, i, i + Len(tCMDOPEN) - 1) = tCMDOPEN
                  /\ closes(i) # {}}
    IN  IF at = {} THEN [matched |-> FALSE, group |-> <<>>]
        ELSE LET i == CHOOSE k \in at : \A m \in at : k <= m
                 j == CHOOSE k \in closes(i) : \A m \in closes(i) : k <= m
             IN  [matched |-> TRUE,
                  group |-> SubSeq(e, i + Len(tCMDOPEN), j - 1)]

(* ------------------------------- inputs -------------------------------- *)
\* lines `crontab -l` may print
\* "* * * * * a"
K_a == <<"*", " ", "*", " ", "*", " ", "*", " ", "*", " ", "a">>
\* "* * * * *  b  -x": the command is written with double spaces
K_b == <<"*", " ", "*", " ", "*", " ", "*", " ", "*", " ", " ", "b", " ", " ", "-", "x">>
\* "@daily a": fewer than 6 fields
K_short == <<"@", "d", "a", "i", "l", "y", " ", "a">>
\* "# c": a comment
K_comment == <<"#", " ", "c">>
\* " ": a blank line
K_blank == <<" ">>

CrontabLines == {K_a, K_b, K_short, K_comment, K_blank}

\* "CMD (a)"
pCmdA == tCMDOPEN \o <<"a", ")">>
\* "CMD (b -x)"
pCmdB == tCMDOPEN \o <<"b", " ", "-", "x", ")">>
pExit(d) == tEXITOPEN \o d \o <<")">>

\* log lines, as journalctl prints them (no line terminator)
\* "CRON: CMD (a)"
L_ran == tCRON \o <<":", " ">> \o pCmdA
\* "cron: CMD (b -x) EXIT STATUS (1)"
L_fail == tcron \o <<":", " ">> \o pCmdB \o <<" ">> \o pExit(<<"1">>)
\* "fcron: CMD (a) EXIT STATUS (0)"
L_ok == tfcron \o <<":", " ">> \o pCmdA \o <<" ">> \o pExit(<<"0">>)
\* "sh: a": not a scheduler line
L_other == <<"s", "h", ":", " ", "a">>
\* "fcron: EXIT STATUS (1) EXIT STATUS (0)": two exit reports on one line
L_two == tfcron \o <<":", " ">> \o pExit(<<"1">>) \o <<" ">> \o pExit(<<"0">>)
\* "FCron: EXIT STATUS": no exit code
L_nocode == <<"F", "C", "r", "o", "n", ":", " ">> \o tEXIT
\* "fcron: EXIT STATUS (00)"
L_zz == tfcron \o <<":", " ">> \o pExit(<<"0", "0">>)

JournalLines == {L_ran, L_fail, L_ok, L_other, L_two, L_nocode, L_zz}

\* the same lines as f.readlines() returns them: each keeps its "\n"
FileLines == {l \o <<"\n">> : l \in JournalLines}

Services == <<"cron.service", "crond.service", "fcron.service">>
NoService == "None"

\* ["/var/log/syslog", "/var/log/cron", "/var/log/fcron.log"]
CronLogFiles == <<"/var/log/syslog", "/var/log/cron", "/var/log/fcron.log">>

(* ------------------------------- entries ------------------------------- *)
Entry(job, status, message) ==
    [job |-> job, status |-> status, message |-> message]

Statuses == {"success", "missing", "failed"}

NoUserCrontab ==
    Entry(<<"No user crontab">>, "missing",
          <<"No crontab entries found or 'crontab' command missing.">>)

NoFcronActivity ==
    Entry(<<"No fcron activity">>, "missing",
          <<"No fcron jobs ran in the last interval.">>)

UnknownJob == <<"Unknown job">>
RanSuccessfully == <<"Ran successfully.">>
RanInWindow ==
    <<"Ran successfully in last ", ToString(CHECK_MINUTES), " minutes.">>
DidNotRun == <<"Did **not run** (but scheduled).">>
FailureDetected == <<"Failure detected">>

\* the raw line between two code fences, each on a line of its own
\* (the three-backquote fence is written as the piece "<fence>")
Fenced(e) == <<"<fence>", "\n">> \o e \o <<"\n", "<fence>">>

(* ------------------------- cron_checker.py ----------------------------- *)
RECURSIVE CrontabJobs(_)
\* get_crontab: the stripped lines that are neither blank nor comments
CrontabJobs(out) ==
    IF out = <<>> THEN <<>>
    ELSE (IF Strip(Head(out)) # <<>> /\ ~StartsWith(Head(out), <<"#">>)
          THEN <<Strip(Head(out))>> ELSE <<>>)
         \o CrontabJobs(Tail(out))

\* detect_scheduler: the first service of the list that is active
DetectScheduler(active) ==
    IF \E i \in 1..Len(Services) : Services[i] \in active
    THEN Services[CHOOSE i \in 1..Len(Services) :
                     /\ Services[i] \in active
                     /\ \A j \in 1..(i - 1) : Services[j] \notin active]
    ELSE NoService

RECURSIVE ParseLogs(_)
\* parse_logs: the lines naming CRON, cron or fcron, in order
ParseLogs(lines) ==
    IF lines = <<>> THEN <<>>
    ELSE (IF CronRelevant(Head(lines)) THEN <<Head(lines)>> ELSE <<>>)
         \o ParseLogs(Tail(lines))

\* " ".join(job.split()[5:])
CommandLabel(job) == Join(DropFirst(Split(job), 5), <<" ">>)

\* mutant of Ran: every event must contain the command
RanEvery(job_cmd, events) ==
    /\ events # <<>>
    /\ \A i \in 1..Len(events) : Contains(job_cmd, events[i])

\* any(job_cmd in e for e in events)
Ran(job_cmd, events) ==
    \E i \in 1..Len(events) : Contains(job_cmd, events[i])

\* mutant of JobEntry: a job that did not run is reported as failed
JobEntryFailed(job, events) ==
    IF \E i \in 1..Len(events) : Contains(CommandLabel(job), events[i])
    THEN Entry(CommandLabel(job), "success", RanInWindow)
    ELSE Entry(CommandLabel(job), "failed", DidNotRun)

\* the entry main() appends for one declared job
JobEntry(job, events) ==
    IF Ran(CommandLabel(job), events)
    THEN Entry(CommandLabel(job), "success", RanInWindow)
    ELSE Entry(CommandLabel(job), "missing", DidNotRun)

RECURSIVE JobEntriesReversed(_, _)
\* mutant of JobEntries: the entries are built last job first
JobEntriesReversed(js, events) ==
    IF js = <<>> THEN <<>>
    ELSE JobEntriesReversed(Tail(js), events)
         \o <<IF \E i \in 1..Len(events) : Contains(CommandLabel(Head(js)), events[i])
              THEN Entry(CommandLabel(Head(js)), "success", RanInWindow)
              ELSE Entry(CommandLabel(Head(js)), "missing", DidNotRun)>>

RECURSIVE JobEntries(_, _)
\* for job in jobs: ...
JobEntries(js, events) ==
    IF js = <<>> THEN <<>>
    ELSE <<JobEntry(Head(js), events)>> \o JobEntries(Tail(js), events)

\* "EXIT STATUS" in e and not re.search(r"EXIT STATUS \(0\)", e)
IsFailureLine(e) == Contains(tEXIT, e) /\ ~Contains(tEXIT0, e)

RECURSIVE FailureEntries(_)
\* for e in events: ... "Failure detected"
FailureEntries(events) ==
    IF events = <<>> THEN <<>>
    ELSE (IF IsFailureLine(Head(events))
          THEN <<Entry(FailureDetected, "failed", Fenced(Head(events)))>>
          ELSE <<>>)
         \o FailureEntries(Tail(events))

\* mutant of CronResults: the synthetic entry is emitted on every run
CronResultsAlwaysSynthetic(js, events) ==
    <<NoUserCrontab>> \o JobEntries(js, events) \o FailureEntries(events)

\* the results list main() builds
CronResults(js, events) ==
    (IF js = <<>> THEN <<NoUserCrontab>> ELSE <<>>)
    \o JobEntries(js, events)
    \o FailureEntries(events)

\* mutant of Color: missing is tested before failed
ColorMissingFirst(rs) ==
    IF \E i \in 1..Len(rs) : rs[i].status = "missing" THEN ORANGE
    ELSE IF \E i \in 1..Len(rs) : rs[i].status = "failed" THEN RED
    ELSE GREEN

\* the embed colour of send_discord_report
Color(rs) ==
    IF \E i \in 1..Len(rs) : rs[i].status = "failed" THEN RED
    ELSE IF \E i \in 1..Len(rs) : rs[i].status = "missing" THEN ORANGE
    ELSE GREEN

StatusIcon(status) ==
    IF status = "success" THEN "check_mark"
    ELSE IF status = "missing" THEN "warning" ELSE "cross_mark"

\* one embed field per result, in order
Fields(rs) ==
    [i \in 1..Len(rs) |->
        [name |-> <<StatusIcon(rs[i].status), " ">> \o rs[i].job,
         value |-> rs[i].message,
         inline |-> FALSE]]

Description ==
    <<"Checked the last **", ToString(CHECK_MINUTES), " minutes** of logs.">>

\* the embed of cron_checker.send_discord_report (the footer's clock is left out)
Embed(rs) ==
    [title |-> "Cron/Fcron Monitor Report",
     description |-> Description,
     color |-> Color(rs),
     fields |-> Fields(rs),
     footer |-> "cron-monitor"]

(* ------------------------- fcron_checker.py ---------------------------- *)
RECURSIVE ParseFcronLogs(_)
\* parse_fcron_logs: the lines naming fcron in any letter case, in order
ParseFcronLogs(lines) ==
    IF lines = <<>> THEN <<>>
    ELSE (IF FcronRelevant(Head(lines)) THEN <<Head(lines)>> ELSE <<>>)
         \o ParseFcronLogs(Tail(lines))

\* job_name
JobName(e) == IF JobMatch(e).matched THEN JobMatch(e).group ELSE UnknownJob

\* the entry main() appends for one event
FcronEntry(e) ==
    IF Contains(tEXIT, e)
    THEN IF ExitMatch(e).matched /\ ExitMatch(e).group # <<"0">>
         THEN Entry(JobName(e), "failed", Fenced(e))
         ELSE Entry(JobName(e), "success", RanSuccessfully)
    ELSE Entry(JobName(e), "success", RanSuccessfully)

RECURSIVE FcronEntries(_)
\* for e in events: ...
FcronEntries(events) ==
    IF events = <<>> THEN <<>>
    ELSE <<FcronEntry(Head(events))>> \o FcronEntries(Tail(events))

\* mutant of FcronResults: no synthetic entry for an empty event list
FcronResultsNoSynthetic(events) == FcronEntries(events)

\* the results list main() builds
FcronResults(events) ==
    IF events = <<>> THEN <<NoFcronActivity>> ELSE FcronEntries(events)

\* the embed colour of fcron_checker.send_discord_report
FcronColor(rs) ==
    IF \E i \in 1..Len(rs) : rs[i].status = "failed" THEN RED
    ELSE IF \E i \in 1..Len(rs) : rs[i].status = "missing" THEN ORANGE
    ELSE GREEN

FcronStatusIcon(status) ==
    IF status = "success" THEN "check_mark"
    ELSE IF status = "missing" THEN "warning" ELSE "cross_mark"

\* one embed field per result, in order
FcronFields(rs) ==
    [i \in 1..Len(rs) |->
        [name |-> <<FcronStatusIcon(rs[i].status), " ">> \o rs[i].job,
         value |-> rs[i].message,
         inline |-> FALSE]]

\* the embed of fcron_checker.send_discord_report (the footer's clock is left out)
FcronEmbed(rs) ==
    [title |-> "Fcron Monitor Report",
     description |-> Description,
     color |-> FcronColor(rs),
     fields |-> FcronFields(rs),
     footer |-> "fcron-monitor"]

(* ------------------------------ the run -------------------------------- *)
VARIABLES
    flavor,          \* which script runs: "cron" or "fcron"
    crontabAvail,    \* shutil.which("crontab") finds the utility
    systemctlAvail,  \* the systemctl executable exists
    pc,              \* the position of the run
    jobs,            \* main: jobs
    logs,            \* main: logs (get_logs: logs, while the files are read)
    lf,              \* get_logs: index of the next fallback file
    events,          \* main: events
    results,         \* main: results
    posts,           \* number of requests.post calls made
    sent,            \* the embed of the last requests.post call
    delivery,        \* outcome of requests.post: "none", "ok" or "failed"
    printed          \* what the run printed, in order

vars == <<flavor, crontabAvail, systemctlAvail, pc, jobs, logs, lf, events,
          results, posts, sent, delivery, printed>>

NoEmbed == [title |-> "", description |-> <<>>, color |-> 0,
            fields |-> <<>>, footer |-> ""]

WarnNoCrontab == "[WARN] 'crontab' command not found, skipping user crontab fetch."
ErrorSendFailed == "[ERROR] Discord send failed"

Init ==
    /\ flavor \in {"cron", "fcron"}
    /\ crontabAvail \in (IF flavor = "cron" THEN BOOLEAN ELSE {TRUE})
    /\ systemctlAvail \in (IF flavor = "cron" THEN BOOLEAN ELSE {TRUE})
    /\ pc = (IF flavor = "cron" THEN "get_crontab" ELSE "get_logs")
    /\ jobs = <<>>
    /\ logs = <<>>
    /\ lf = 1
    /\ events = <<>>
    /\ results = <<>>
    /\ posts = 0
    /\ sent = NoEmbed
    /\ delivery = "none"
    /\ printed = <<>>

\* cron main: jobs = get_crontab()
GetCrontab ==
    /\ flavor = "cron" /\ pc = "get_crontab"
    /\ \/ /\ ~crontabAvail
          /\ jobs' = <<>>
          /\ printed' = Append(printed, WarnNoCrontab)
       \/ /\ crontabAvail
          /\ printed' = printed
          /\ \/ jobs' = <<>>                    \* CalledProcessError
             \/ \E out \in SeqsUpTo(CrontabLines, MaxJobs) :
                   jobs' = CrontabJobs(out)
    /\ pc' = "get_logs"
    /\ UNCHANGED <<flavor, crontabAvail, systemctlAvail, logs, lf, events,
                   results, posts, sent, delivery>>

\* cron get_logs, up to the fallback: detect_scheduler() and journalctl
GetLogs ==
    /\ flavor = "cron" /\ pc = "get_logs"
    /\ \/ /\ ~systemctlAvail
          \* check_output raises FileNotFoundError, which detect_scheduler,
          \* get_logs and main do not catch
          /\ pc' = "crashed"
          /\ UNCHANGED <<logs, lf>>
       \/ /\ systemctlAvail
          /\ \E active \in SUBSET {Services[i] : i \in 1..Len(Services)} :
                \/ /\ DetectScheduler(active) # NoService
                   /\ \E out \in SeqsUpTo(JournalLines, MaxLogs) :
                         logs' = out
                   /\ pc' = "main"
                   /\ lf' = lf
                \/ \* no service, or journalctl raised
                   /\ logs' = <<>>
                   /\ lf' = 1
                   /\ pc' = "read_files"
    /\ UNCHANGED <<flavor, crontabAvail, systemctlAvail, jobs, events,
                   results, posts, sent, delivery, printed>>

\* cron get_logs: one turn of `for lf in log_files`
GetLogsFile ==
    /\ flavor = "cron" /\ pc = "read_files"
    /\ \/ logs' = logs                         \* absent, or open/read raised
       \/ \E content \in SeqsUpTo(FileLines, MaxLogs - Len(logs)) :
             logs' = logs \o LastN(content, TAIL_LINES)
    /\ IF lf = Len(CronLogFiles)
       THEN pc' = "main" /\ lf' = lf
       ELSE pc' = pc /\ lf' = lf + 1
    /\ UNCHANGED <<flavor, crontabAvail, systemctlAvail, jobs, events,
                   results, posts, sent, delivery, printed>>

\* cron main: events = parse_logs(logs) and the building of results
Main ==
    /\ flavor = "cron" /\ pc = "main"
    /\ events' = ParseLogs(logs)
    /\ results' = CronResults(jobs, ParseLogs(logs))
    /\ pc' = "send"
    /\ UNCHANGED <<flavor, crontabAvail, systemctlAvail, jobs, logs, lf,
                   posts, sent, delivery, printed>>

\* mutant of SendDiscordReport: a failed delivery is tried once more
SendDiscordReportRetry ==
    /\ flavor = "cron" /\ pc = "send"
    /\ sent' = Embed(results)
    /\ \/ posts' = posts + 1 /\ delivery' = "ok" /\ printed' = printed
       \/ /\ posts' = posts + 2
          /\ delivery' = "failed"
          /\ printed' = Append(printed, ErrorSendFailed)
    /\ pc' = "done"
    /\ UNCHANGED <<flavor, crontabAvail, systemctlAvail, jobs, logs, lf,
                   events, results>>

\* cron send_discord_report(results)
SendDiscordReport ==
    /\ flavor = "cron" /\ pc = "send"
    /\ posts' = posts + 1
    /\ sent' = Embed(results)
    /\ \/ delivery' = "ok" /\ printed' = printed
       \/ delivery' = "failed" /\ printed' = Append(printed, ErrorSendFailed)
    /\ pc' = "done"
    /\ UNCHANGED <<flavor, crontabAvail, systemctlAvail, jobs, logs, lf,
                   events, results>>

\* fcron get_fcron_logs: journalctl
GetFcronLogs ==
    /\ flavor = "fcron" /\ pc = "get_logs"
    /\ \/ logs' = <<>>                         \* journalctl raised
       \/ \E out \in SeqsUpTo(JournalLines, MaxLogs) : logs' = out
    /\ lf' = 1
    /\ pc' = "read_files"
    /\ UNCHANGED <<flavor, crontabAvail, systemctlAvail, jobs, events,
                   results, posts, sent, delivery, printed>>

\* fcron get_fcron_logs: /var/log/fcron.log
GetFcronLogsFile ==
    /\ flavor = "fcron" /\ pc = "read_files"
    /\ \/ logs' = logs                         \* absent, or open/read raised
       \/ \E content \in SeqsUpTo(FileLines, MaxLogs - Len(logs)) :
             logs' = logs \o LastN(content, TAIL_LINES)
    /\ pc' = "main"
    /\ UNCHANGED <<flavor, crontabAvail, systemctlAvail, jobs, lf, events,
                   results, posts, sent, delivery, printed>>

\* fcron main: events = parse_fcron_logs(logs) and the building of results
FcronMain ==
    /\ flavor = "fcron" /\ pc = "main"
    /\ events' = ParseFcronLogs(logs)
    /\ results' = FcronResults(ParseFcronLogs(logs))
    /\ pc' = "send"
    /\ UNCHANGED <<flavor, crontabAvail, systemctlAvail, jobs, logs, lf,
                   posts, sent, delivery, printed>>

\* fcron send_discord_report(results)
FcronSendDiscordReport ==
    /\ flavor = "fcron" /\ pc = "send"
    /\ posts' = posts + 1
    /\ sent' = FcronEmbed(results)
    /\ \/ delivery' = "ok" /\ printed' = printed
       \/ delivery' = "failed" /\ printed' = Append(printed, ErrorSendFailed)
    /\ pc' = "done"
    /\ UNCHANGED <<flavor, crontabAvail, systemctlAvail, jobs, logs, lf,
                   events, results>>

Next ==
    \/ GetCrontab
    \/ GetLogs
    \/ GetLogsFile
    \/ Main
    \/ SendDiscordReport
    \/ GetFcronLogs
    \/ GetFcronLogsFile
    \/ FcronMain
    \/ FcronSendDiscordReport

Spec == Init /\ [][Next]_vars

(* ---- send_discord_report applied to an arbitrary list of entries ------ *)
ReportEntries ==
    {Entry(<<"a">>, st, RanSuccessfully) : st \in Statuses} \cup {NoUserCrontab}

InitReport ==
    /\ flavor \in {"cron", "fcron"}
    /\ crontabAvail = TRUE
    /\ systemctlAvail = TRUE
    /\ pc = "send"
    /\ jobs = <<>>
    /\ logs = <<>>
    /\ lf = 1
    /\ events = <<>>
    /\ results \in SeqsUpTo(ReportEntries, MaxEntries)
    /\ posts = 0
    /\ sent = NoEmbed
    /\ delivery = "none"
    /\ printed = <<>>

NextReport ==
    \/ SendDiscordReport
    \/ FcronSendDiscordReport

SpecReport == InitReport /\ [][NextReport]_vars

(* ------------------------------- claims -------------------------------- *)
\* the run has built its results list
Built == pc \in {"send", "done"}

\* C1: for every entry list handed to send_discord_report, in both flavors,
\* the colour sent is red iff some entry is failed, orange iff none is failed
\* and some entry is missing, and green otherwise (the empty list included)
C1_Severity ==
    pc = "done" =>
        LET anyFailed == \E i \in 1..Len(results) : results[i].status = "failed"
            anyMissing == \E i \in 1..Len(results) : results[i].status = "missing"
        IN  /\ sent.color = RED <=> anyFailed
            /\ sent.color = ORANGE <=> (~anyFailed /\ anyMissing)
            /\ sent.color = GREEN <=> (~anyFailed /\ ~anyMissing)

\* a failed entry between a success and a missing entry was sent as red
C1_Witness ==
    /\ pc = "done"
    /\ Len(results) = 3
    /\ results[1].status = "success"
    /\ results[2].status = "failed"
    /\ results[3].status = "missing"
    /\ sent.color = RED

\* C2 as stated: cron flavor, a declared job whose label is non-empty and is
\* a substring of some log line returned by the log source is Success
C2_Original ==
    (flavor = "cron" /\ Built) =>
        \A k \in 1..Len(jobs) :
            LET label == CommandLabel(jobs[k])
            IN  (/\ label # <<>>
                 /\ \E i \in 1..Len(logs) : Contains(label, logs[i]))
                => results[k].status = "success"

\* C2 amended: cron flavor, a declared job whose label is non-empty and is a
\* substring of some log line that names CRON, cron or fcron is Success
C2_RelevantLine ==
    (flavor = "cron" /\ Built) =>
        \A k \in 1..Len(jobs) :
            LET label == CommandLabel(jobs[k])
            IN  (/\ label # <<>>
                 /\ \E i \in 1..Len(logs) :
                       /\ Contains(tCRON, logs[i]) \/ Contains(tcron, logs[i])
                            \/ Contains(tfcron, logs[i])
                       /\ Contains(label, logs[i]))
                => results[k].status = "success"

\* the job declared with double spaces was found in the second of two lines
C2_Witness ==
    /\ flavor = "cron" /\ Built
    /\ Len(jobs) = 1 /\ jobs[1] = K_b
    /\ Len(logs) = 2 /\ logs[1] = L_other /\ logs[2] = L_fail
    /\ results[1].status = "success"

\* C3 as stated: cron flavor, the entries after the per-job entries are, in
\* event order, exactly one "Failure detected" / failed entry per event that
\* carries a failing exit report (an EXIT STATUS marker not immediately
\* followed by " (0)"), each message containing that event's raw line, and
\* the colour sent is red whenever there is such an event
C3_Claim ==
    (flavor = "cron" /\ Built) =>
        LET failing(e) ==
                \E p \in 1..Len(e) :
                    /\ p + Len(tEXIT) - 1 <= Len(e)
                    /\ SubSeq(e, p, p + Len(tEXIT) - 1) = tEXIT
                    /\ ~(/\ p + Len(tEXIT0) - 1 <= Len(e)
                         /\ SubSeq(e, p, p + Len(tEXIT0) - 1) = tEXIT0)
            NZ == {i \in 1..Len(events) : failing(events[i])}
            nth(k) == CHOOSE i \in NZ : Cardinality({j \in NZ : j < i}) = k - 1
            base == IF jobs = <<>> THEN 1 ELSE Len(jobs)
            extra == SubSeq(results, base + 1, Len(results))
        IN  /\ Len(extra) = Cardinality(NZ)
            /\ \A k \in 1..Len(extra) :
                  /\ extra[k].job = FailureDetected
                  /\ extra[k].status = "failed"
                  /\ k <= Cardinality(NZ) => Contains(events[nth(k)], extra[k].message)
            /\ (NZ # {} /\ pc = "done") => sent.color = RED

C5_CountAndOrder ==
    /\ (flavor = "cron" /\ Built) =>
          LET off == IF jobs = <<>> THEN 1 ELSE 0
          IN  /\ Len(results) >= off + Len(jobs)
              /\ \A k \in 1..Len(jobs) :
                    /\ results[off + k].job = CommandLabel(jobs[k])
                    /\ results[off + k].message \in {RanInWindow, DidNotRun}
              /\ \A k \in (off + Len(jobs) + 1)..Len(results) :
                    /\ results[k].job = FailureDetected
                    /\ results[k].message \notin {RanInWindow, DidNotRun}
    /\ (flavor = "fcron" /\ Built) =>
          IF events = <<>>
          THEN results = <<NoFcronActivity>>
          ELSE /\ Len(results) = Len(events)
               /\ \A i \in 1..Len(events) : results[i] = FcronEntry(events[i])

\* the same line declared twice gave two per-job entries with the same
\* label, followed by the failure entry of the one event
C5_Witness ==
    /\ flavor = "cron" /\ Built
    /\ Len(jobs) = 2 /\ jobs[1] = K_a /\ jobs[2] = K_a
    /\ Len(events) = 1 /\ events[1] = L_fail
    /\ Len(results) = 3
    /\ results[1].job = <<"a">>
    /\ results[2].job = <<"a">>
    /\ results[3].job = FailureDetected

\* C6: cron flavor, an empty declared-job list gives the single synthetic
\* entry "No user crontab" / missing, which with an empty log is the only
\* entry and makes the colour orange; a non-empty list gives no such entry
C6_NoUserCrontab ==
    (flavor = "cron" /\ Built) =>
        /\ jobs = <<>> =>
              /\ results[1] = NoUserCrontab
              /\ Cardinality({i \in 1..Len(results) : results[i] = NoUserCrontab}) = 1
              /\ logs = <<>> =>
                    /\ results = <<NoUserCrontab>>
                    /\ pc = "done" => sent.color = ORANGE
        /\ jobs # <<>> => \A i \in 1..Len(results) : results[i] # NoUserCrontab

\* no crontab and no log: the report sent has the one synthetic entry, orange
C6_Witness ==
    /\ flavor = "cron" /\ pc = "done"
    /\ jobs = <<>> /\ logs = <<>>
    /\ Len(sent.fields) = 1
    /\ sent.color = ORANGE

\* C7 as stated: cron flavor, no combination of missing tools aborts the run,
\* and a missing crontab utility shows as the single missing entry
C7_Claim ==
    /\ pc # "crashed"
    /\ (flavor = "cron" /\ Built /\ ~crontabAvail) =>
          /\ results[1] = NoUserCrontab
          /\ Cardinality({i \in 1..Len(results) : results[i].status = "missing"}) = 1

\* C8: a run that reaches the notifier makes exactly one outbound call, which
\* carries every entry in order; a failed call is printed, not repeated, and
\* the run ends normally
C8_OneDelivery ==
    /\ posts <= 1
    /\ posts = 1 <=> pc = "done"
    /\ pc = "done" =>
          /\ delivery \in {"ok", "failed"}
          /\ Len(sent.fields) = Len(results)
          /\ \A i \in 1..Len(results) :
                /\ sent.fields[i].value = results[i].message
                /\ SubSeq(sent.fields[i].name, 3, Len(sent.fields[i].name))
                      = results[i].job
          /\ delivery = "failed" =>
                (printed # <<>> /\ printed[Len(printed)] = ErrorSendFailed)
    /\ delivery = "failed" => pc = "done"

\* a report of two entries whose delivery failed
C8_Witness ==
    /\ pc = "done"
    /\ delivery = "failed"
    /\ posts = 1
    /\ Len(results) = 2
    /\ Len(sent.fields) = 2

\* C9: cron flavor, a declared job's entry is missing iff no event contains
\* its label, and is never failed; with declared jobs and no event, every
\* entry is missing (lines of fewer than 6 fields included)
C9_MissingIff ==
    (flavor = "cron" /\ Built) =>
        /\ \A k \in 1..Len(jobs) :
              /\ results[k].status = "missing" <=>
                    ~\E i \in 1..Len(events) :
                        Contains(CommandLabel(jobs[k]), events[i])
              /\ results[k].status # "failed"
        /\ (jobs # <<>> /\ events = <<>>) =>
              \A i \in 1..Len(results) : results[i].status = "missing"

\* a short declared line and a full one, a log without scheduler lines: both
\* entries missing, the first with the empty label
C9_Witness ==
    /\ flavor = "cron" /\ Built
    /\ Len(jobs) = 2 /\ jobs[1] = K_short /\ jobs[2] = K_a
    /\ logs # <<>> /\ events = <<>>
    /\ Len(results) = 2
    /\ results[1].job = <<>>
    /\ results[1].status = "missing" /\ results[2].status = "missing"

\* C10: in both flavors the entry list handed to send_discord_report is never
\* empty, so no report is sent without a field
C10_NonEmpty ==
    /\ Built => results # <<>>
    /\ pc = "done" => Len(sent.fields) >= 1

\* fcron: log lines were read, none names fcron, the synthetic entry is sent
C10_Witness ==
    /\ flavor = "fcron" /\ pc = "done"
    /\ logs # <<>> /\ events = <<>>
    /\ Len(sent.fields) = 1

====
